---- MODULE Spec2Model ----
(***************************************************************************)
(* TraceDispatcher of debugger/cpp/tracer_core.cpp: the trace hook that    *)
(* filters interpreter events (call, return, line, exception, opcode) and  *)
(* forwards the interesting ones to the Python-side trace logic (the       *)
(* Sink), consulting the Python-side config (the policy collaborator).     *)
(*                                                                         *)
(* Host threads run under the interpreter lock (gil): C++ code of a        *)
(* handler runs without interruption, another thread can only run while    *)
(* the current one executes Python code (the traced program, a policy      *)
(* call or a Sink call).  std::mutex::lock blocks with the gil held.       *)
(***************************************************************************)
EXTENDS Integers, Sequences, FiniteSets, TLC

\* ------------------------------------------------------------------ bounds
\* operations the host invokes in one run (events, stop(), add_target_frame)
MaxOps == 3
\* match_filename invocations per path are counted up to MaxCount
MaxCount == 2
\* directory names in a path given to the constructor
MaxPathLen == 2
\* arguments a CALL instruction declares in the decoder's synthetic frames
MaxArgs == 2
\* characters of a string given to parse_operands
MaxStrLen == 6
\* capacity of the ops array given to parse_operands
MaxOperands == 2

\* host threads, frame identities (PyFrameObject*) and source paths
Threads == {1, 2}
Frames == {1, 2, 3}
Paths == {1, 2}
\* operands of the instructions and objects on the operand stack
OpArgs == {0, 1}
Objects == {1}

\* PyFrameObject* / thread values that denote "none"
nullptr == 0
NoThread == 0

\* the thread a frame runs on
Owner(f) == ((f - 1) % Cardinality(Threads)) + 1

\* PyTrace_* event kinds handled by trace_dispatch
Kinds == {"call", "return", "line", "exception", "opcode"}
\* the payload (arg) the runtime passes with an event of a kind
ArgsOf(k) == IF k = "return" THEN {"NULL", "value"}
             ELSE IF k = "exception" THEN {"tuple3", "other"}
             ELSE {"none"}

\* co_filename of the code a Call event's frame runs (the other handlers do
\* not read it)
NoPath == 0
FilesOf(k) == IF k = "call" THEN Paths ELSE {NoPath}

NoEvent == [frame |-> nullptr, kind |-> "none", arg |-> "none", file |-> NoPath]
NoCall == [method |-> "none", args |-> <<>>]

\* return status of the trace function; NoRet while none has been returned
RetOk == 0
RetErr == -1
NoRet == 1

VARIABLES
  hooked,         \* threads on which PyEval_SetTrace installed the dispatcher
  pc,             \* position of each thread
  cur,            \* the event a thread's handler is working on
  sinkcall,       \* the Sink call a thread has in progress
  matched,        \* is_target_frame's local `matched` between result and store
  ret,            \* status returned to the runtime for the thread's last event
  pyerr,          \* the thread's pending Python error indicator
  gil,            \* thread holding the interpreter lock
  cache_mutex,    \* thread holding cache_mutex
  inj,            \* frame a thread is injecting (inside add_target_frame)
  path_cache,     \* std::unordered_map<std::string,bool>
  active_frames,  \* std::unordered_set<PyFrameObject*>
  bad_frame,      \* the guard slot
  f_trace_lines,  \* per-frame f_trace_lines flag
  crashed,        \* the process died (NULL dereference, terminate)
  live,           \* frames whose invocation is executing (runtime state)
  suppressed,     \* history: frames whose Call found the function excluded
  mcalls,         \* history: number of match_filename invocations per path
  mfailed,        \* history: some match_filename call for the path failed
  decided,        \* history: booleans returned by decide(path)
  retryDue,       \* history: a matcher failure not yet followed by a decide
  retired,        \* history: frames that got a Return event while registered
  stopped,        \* history: "yes" once stop() has returned, "stopping" while it
                  \* runs, "no" from the next start() on
  nops,           \* history: number of budgeted operations invoked so far
  printed,        \* history: print_stack_trace ran in the event handler the
                  \* thread is returning from
  callFailed,     \* history: frames whose Sink.handle_call raised in the
                  \* invocation that is executing
  starting,       \* threads inside start(), between PyEval_SetTrace and the
                  \* return of the Sink's start()
  fsys,           \* construction: the directories that exist on the filesystem
  cwd,            \* construction: the current working directory
  init_args,      \* construction: the arguments given to TraceDispatcher(...)
  allocated,      \* construction: tp_new has allocated the object
  dispatcher,     \* construction: obj->dispatcher
  init_ret,       \* construction: the status tp_init returned
  prev_instr,     \* decoder: the instruction the opcode event is about
  stack,          \* decoder: the operand stack, stack[k] being sp[-k]
  forwarded,      \* decoder: what handle_opcode_event called the Sink with
  str,            \* operand parser: the string given to parse_operands
  max_ops,        \* operand parser: the capacity of ops given to it
  parsed          \* operand parser: what parse_operands returned and stored

progVars == <<hooked, pc, cur, sinkcall, matched, ret, pyerr, gil, cache_mutex, inj>>
dataVars == <<path_cache, active_frames, bad_frame, f_trace_lines, crashed, live>>
sinkVars == <<printed, callFailed, starting>>
histVars == <<suppressed, mcalls, mfailed, decided, retryDue, retired, stopped, nops, sinkVars>>
ctorVars == <<fsys, cwd, init_args, allocated, dispatcher, init_ret>>
decoderVars == <<prev_instr, stack, forwarded>>
parserVars == <<str, max_ops, parsed>>
sideVars == <<ctorVars, decoderVars, parserVars>>
tracerVars == <<progVars, dataVars, histVars>>
vars == <<tracerVars, sideVars>>

\* positions at which a thread executes Python code and may hand over the gil
SinkPcs == {"sink_call", "sink_return", "sink_line", "sink_exception",
            "sink_opcode", "sink_start", "sink_stop"}
EventSinkPcs == SinkPcs \ {"sink_start", "sink_stop"}
PythonPcs == {"idle", "is_excluded", "match_filename"} \cup SinkPcs

\* a path is a sequence of directory names, rooted or relative to cwd
Names == {"a", "b"}
NameSeqs == UNION {[1..n -> Names] : n \in 0..MaxPathLen}
FsPaths == [root : BOOLEAN, names : NameSeqs]

\* line 198: fs::absolute(fs::path(target_path)) is the path itself when it is
\* rooted and current_path() / path otherwise; it does not look at the
\* filesystem
absolute(p) == IF p.root THEN p ELSE [root |-> TRUE, names |-> cwd \o p.names]

\* obj->dispatcher before tp_init has run (line 444) and after (line 512)
NoDispatcher == [constructed |-> FALSE,
                 target_path |-> [root |-> FALSE, names |-> <<>>]]
NewDispatcher(p) == [constructed |-> TRUE, target_path |-> absolute(p)]

\* the arguments of TraceDispatcher(target_path, trace_logic, config): ok is
\* whether they parse as "sOO" (line 506)
InitArgs == [ok : BOOLEAN, target_path : FsPaths]

\* the dispatcher the tracer below runs on: constructed on an existing root
DefaultArgs == [ok |-> TRUE, target_path |-> [root |-> TRUE, names |-> <<"a">>]]

\* parse_operands has not been called
NotParsed == [count |-> -1, ops |-> <<>>, state |-> "STATE_START"]

\* the operand parser is not in use
InitNoParse == str = <<>> /\ max_ops = 0 /\ parsed = NotParsed

\* the operand stack and instruction of a frame that has not executed yet
NoInstr == [code |-> "OTHER", arg |-> 0]
NoStack == <<>>

\* the state of the tracer's own variables after construction
InitTracer ==
  /\ hooked = {}
  /\ pc = [t \in Threads |-> "idle"]
  /\ cur = [t \in Threads |-> NoEvent]
  /\ sinkcall = [t \in Threads |-> NoCall]
  /\ matched = [t \in Threads |-> FALSE]
  /\ ret = [t \in Threads |-> NoRet]
  /\ pyerr = [t \in Threads |-> FALSE]
  /\ gil = 1
  /\ cache_mutex = NoThread
  /\ inj = [t \in Threads |-> nullptr]
  /\ path_cache = [p \in {} |-> FALSE]
  /\ active_frames = {}
  /\ bad_frame = nullptr
  /\ f_trace_lines = [f \in Frames |-> 1]
  /\ crashed = FALSE
  /\ live = {}
  /\ suppressed = {}
  /\ mcalls = [p \in Paths |-> 0]
  /\ mfailed = [p \in Paths |-> FALSE]
  /\ decided = [p \in Paths |-> {}]
  /\ retryDue = [p \in Paths |-> FALSE]
  /\ retired = {}
  /\ stopped = "no"
  /\ nops = 0
  /\ printed = [t \in Threads |-> FALSE]
  /\ callFailed = {}
  /\ starting = {}

\* the object after TraceDispatcher(target_path, trace_logic, config)
InitConstructed ==
  /\ fsys = {<<"a">>}
  /\ cwd = <<>>
  /\ init_args = DefaultArgs
  /\ allocated = TRUE
  /\ dispatcher = NewDispatcher(DefaultArgs.target_path)
  /\ init_ret = RetOk

\* the state after construction, before start()
Init ==
  /\ InitTracer
  /\ InitConstructed
  /\ prev_instr = NoInstr
  /\ stack = NoStack
  /\ forwarded = NoCall
  /\ InitNoParse

\* ------------------------------------------------------- the stack decoder
\* opcodes the decoder distinguishes (opcode.h); OTHER is any other opcode
StoreNameOps == {"STORE_GLOBAL", "STORE_NAME", "STORE_ATTR"}
Opcodes == StoreNameOps \cup {"STORE_FAST", "STORE_SUBSCR", "CALL", "OTHER"}

\* PyObject* values: NULL, the objects a stack slot can hold, the entries of
\* the name tables and the two booleans
NULL == 0
Slots == Objects \cup {NULL}
Py_False == 300
Py_True == 301

\* sp[k] below is the C expression sp[-k]
StackDepth == Cardinality(OpArgs) + 1
Stacks == [1..StackDepth -> Slots]
Instrs == [code : Opcodes, arg : OpArgs]

\* code->co_names and code->co_localsplusnames, indexed by the operand
co_names(i) == 100 + i
co_localsplusnames(i) == 200 + i

\* CallArgs that fills the tuple from the top of the stack downwards
CallArgs_Reversed(cp, sp) == [i \in 1..cp.total |-> sp[cp.base - cp.total + i]]

\* StoreValue that reads the top slot for every store
StoreValue_TopOnly(instr, sp) == sp[1]

\* VarName that looks a local up in co_names
VarName_LocalsFromNames(instr, sp) ==
  IF instr.code \in StoreNameOps \cup {"STORE_FAST"} THEN co_names(instr.arg)
  ELSE IF instr.code = "STORE_SUBSCR" THEN sp[1]
  ELSE NULL

\* lines 264-275: the name of the store target
VarName(instr, sp) ==
  IF instr.code \in StoreNameOps THEN co_names(instr.arg)
  ELSE IF instr.code = "STORE_FAST" THEN co_localsplusnames(instr.arg)
  ELSE IF instr.code = "STORE_SUBSCR" THEN sp[1]
  ELSE NULL

\* lines 278-285: the slot read as the stored value
StoreValue(instr, sp) ==
  IF instr.code = "STORE_ATTR" THEN sp[2]
  ELSE IF instr.code = "STORE_SUBSCR" THEN sp[3]
  ELSE sp[1]

\* lines 304-318: callable, first argument slot and argument count of a CALL
CallParts(instr, sp) ==
  LET n == instr.arg
      method == sp[n + 2]
  IN  IF method # NULL
      THEN [callable |-> method, base |-> n + 1, total |-> n + 1,
            is_method |-> Py_True]
      ELSE [callable |-> sp[n + 1], base |-> n, total |-> n,
            is_method |-> Py_False]

\* lines 322-326: args_base[0 .. total_args-1], in push order
CallArgs(cp, sp) == [i \in 1..cp.total |-> sp[cp.base - (i - 1)]]

\* StackAfter that clears the argument slots of a CALL
StackAfter_Popped(instr, sp) ==
  [i \in DOMAIN sp |-> IF instr.code = "CALL" /\ i <= instr.arg THEN NULL ELSE sp[i]]

\* lines 272-273, 278-279, 305-306: sp is a local pointer computed from
\* localsplus + stacktop; the slots are read, never assigned, and stacktop is
\* not written
StackAfter(instr, sp) == sp

\* Decode without the test of line 286
Decode_NoNullCheck(f, instr, sp) ==
  LET var_name == VarName(instr, sp)
  IN  IF var_name # NULL
      THEN [method |-> "handle_opcode",
            args |-> <<f, instr.code, var_name, StoreValue(instr, sp)>>]
      ELSE IF instr.code = "CALL"
      THEN LET cp == CallParts(instr, sp)
               args == CallArgs(cp, sp)
           IN  IF cp.callable = NULL \/ \E i \in 1..cp.total : args[i] = NULL
               THEN [method |-> "crash", args |-> <<>>]
               ELSE [method |-> "handle_opcode",
                     args |-> <<f, instr.code, cp.callable,
                                Append(args, cp.is_method)>>]
      ELSE [method |-> "none", args |-> <<>>]

\* lines 249-342: what handle_opcode_event does for an instruction of frame
\* f: nothing, a handle_opcode call of the Sink, or a NULL dereference
\* (Py_INCREF(NULL))
Decode(f, instr, sp) ==
  LET var_name == VarName(instr, sp)
  IN  IF var_name # NULL
      THEN IF StoreValue(instr, sp) = NULL
           THEN [method |-> "none", args |-> <<>>]
           ELSE [method |-> "handle_opcode",
                 args |-> <<f, instr.code, var_name, StoreValue(instr, sp)>>]
      ELSE IF instr.code = "CALL"
      THEN LET cp == CallParts(instr, sp)
               args == CallArgs(cp, sp)
           IN  IF cp.callable = NULL \/ \E i \in 1..cp.total : args[i] = NULL
               THEN [method |-> "crash", args |-> <<>>]
               ELSE [method |-> "handle_opcode",
                     args |-> <<f, instr.code, cp.callable,
                                Append(args, cp.is_method)>>]
      ELSE [method |-> "none", args |-> <<>>]

\* ------------------------------------------------- helpers of the handlers
Min(a, b) == IF a <= b THEN a ELSE b

\* IsBadFrame that never finds the occupant
IsBadFrame_Never(f) == FALSE

\* IsBadFrame that takes every frame for the occupant while the slot is set
IsBadFrame_AnyMarked(f) == bad_frame # nullptr

\* lines 139, 216, 222, 250: frame is the guard occupant
IsBadFrame(f) == bad_frame # nullptr /\ f = bad_frame

\* ClearsGuard without the Exception event
ClearsGuard_ReturnOnly(k) == k = "return"

\* line 217: the event kinds that clear the guard
ClearsGuard(k) == k = "return" \/ k = "exception"

\* MarkExcluded that leaves the slot as it is
MarkExcluded_Keep(f) == bad_frame

\* line 144: the guard slot after a Call found its function excluded
MarkExcluded(f) == f

\* lines 163-164: path_cache.find(filename_str) != path_cache.end()
CacheHit(p) == p \in DOMAIN path_cache

\* line 185: path_cache[filename_str] = matched
CacheStore(c, p, m) == [q \in DOMAIN c \cup {p} |-> IF q = p THEN m ELSE c[q]]

\* LinesAfterDecision that never touches the flag
LinesAfterDecision_Never(f, m) == f_trace_lines

\* lines 167-169 and 189-191: f_trace_lines after a decision for frame f
LinesAfterDecision(f, m) ==
  IF m THEN f_trace_lines ELSE [f_trace_lines EXCEPT ![f] = 0]

\* RegisterCall with the test of is_target_frame's result dropped
RegisterCall_Unconditional(f, m) == active_frames \cup {f}

\* RegisterCall that unregisters the frame of a rejected Call
RegisterCall_ErasesRejected(f, m) ==
  IF m THEN active_frames \cup {f} ELSE active_frames \ {f}

\* lines 345-349: handle_call_event registers the frame iff is_target_frame
RegisterCall(f, m) == IF m THEN active_frames \cup {f} ELSE active_frames

\* line 244: active_frames.insert(frame) in add_target_frame
InsertTarget(f) == active_frames \cup {f}

\* lines 245-246: frame_internal->f_trace_lines = 1
RequestLines(f) == [f_trace_lines EXCEPT ![f] = 1]

\* IsActive with the membership test dropped
IsActive_Always(f) == TRUE

\* lines 363, 381, 395: active_frames.find(frame) != active_frames.end()
IsActive(f) == f \in active_frames

\* lines 364-366: a missing return value is replaced by Py_None
ReturnValue(a) == IF a = "NULL" THEN "None" ELSE a

\* lines 397-400: PyArg_UnpackTuple(arg, "exception", 3, 3, ...) succeeds
UnpackOk(a) == a = "tuple3"

\* AfterHandleCall that unregisters the frame when the Sink call raised
AfterHandleCall_FailureUnregisters(f, ok) ==
  IF ok THEN active_frames ELSE active_frames \ {f}

\* lines 350-356: the result of handle_call is released or, when NULL,
\* printed; active_frames is not touched after the insert of line 348
AfterHandleCall(f, ok) == active_frames

\* EraseOnReturn that leaves the frame registered
EraseOnReturn_Keep(f) == active_frames

\* line 374: active_frames.erase(frame) at the end of handle_return_event
EraseOnReturn(f) == active_frames \ {f}

\* ConsultsPolicy that asks the policy for Line events too
ConsultsPolicy_Line(k) == k \in {"call", "line"}

\* lines 227-228, 345, 143: only the Call case of the switch reaches
\* is_target_frame, the one caller of is_excluded_function
ConsultsPolicy(k) == k = "call"

\* TryLock that does not wait for the mutex
TryLock_Always(t) == TRUE

\* lines 162, 184, 243, 347, 362, 380, 394: std::lock_guard's constructor
\* returns once cache_mutex is free
TryLock(t) == cache_mutex = NoThread

\* HeldDuringSink that releases the mutex before the Sink call
HeldDuringSink_Released(t) == NoThread

\* lines 362, 380, 394: the lock_guard lives to the end of the handler, so
\* thread t owns cache_mutex during the Sink call
HeldDuringSink(t) == t

\* the handler of thread t returns status to the runtime
Returns(t, status) ==
  /\ pc' = [pc EXCEPT ![t] = "returned"]
  /\ sinkcall' = [sinkcall EXCEPT ![t] = NoCall]
  /\ matched' = [matched EXCEPT ![t] = FALSE]
  /\ ret' = [ret EXCEPT ![t] = status]
  /\ UNCHANGED cur

\* thread t can execute a step of C++ code
Runs(t) == ~crashed /\ gil = t /\ inj[t] = nullptr

\* SinkCallOf that forwards every event as a line event
SinkCallOf_AlwaysLine(e) == [method |-> "handle_line", args |-> <<e.frame>>]

\* the Sink call a Line, Return or Exception handler makes
SinkCallOf(e) ==
  IF e.kind = "return"
  THEN [method |-> "handle_return", args |-> <<e.frame, ReturnValue(e.arg)>>]
  ELSE IF e.kind = "line"
  THEN [method |-> "handle_line", args |-> <<e.frame>>]
  ELSE [method |-> "handle_exception", args |-> <<"type", "value", "traceback">>]

\* a frame's invocation ends when its Return has been handled
AfterEvent(e) == IF e.kind = "return" THEN suppressed \ {e.frame} ELSE suppressed

\* ----------------------------------------------------------------- actions
\* start(): PyEval_SetTrace installs the hook on the calling thread, then
\* the Sink's start() is called
Start(t) ==
  /\ Runs(t) /\ pc[t] = "idle"
  /\ hooked' = hooked \cup {t}
  /\ pc' = [pc EXCEPT ![t] = "sink_start"]
  /\ sinkcall' = [sinkcall EXCEPT ![t] = [method |-> "start", args |-> <<>>]]
  /\ stopped' = "no"
  /\ starting' = starting \cup {t}
  /\ printed' = [printed EXCEPT ![t] = FALSE]
  /\ UNCHANGED <<cur, matched, ret, pyerr, gil, cache_mutex, inj>>
  /\ UNCHANGED <<dataVars, suppressed, mcalls, mfailed, decided, retryDue, retired, nops>>
  /\ UNCHANGED <<callFailed, sideVars>>

\* stop(): PyEval_SetTrace(nullptr, nullptr), then the Sink's stop()
Stop(t) ==
  /\ Runs(t) /\ pc[t] = "idle"
  /\ nops < MaxOps
  /\ hooked' = hooked \ {t}
  /\ pc' = [pc EXCEPT ![t] = "sink_stop"]
  /\ sinkcall' = [sinkcall EXCEPT ![t] = [method |-> "stop", args |-> <<>>]]
  /\ nops' = nops + 1
  /\ stopped' = "stopping"
  /\ printed' = [printed EXCEPT ![t] = FALSE]
  /\ UNCHANGED <<cur, matched, ret, pyerr, gil, cache_mutex, inj>>
  /\ UNCHANGED <<dataVars, suppressed, mcalls, mfailed, decided, retryDue, retired>>
  /\ UNCHANGED <<callFailed, starting, sideVars>>

\* the runtime calls trace_dispatch_thunk on thread t with an event of frame
\* f.  A frame gets a Call only when it is not executing; a fresh frame
\* object has f_trace_lines set, and line events are emitted only while it is.
\* The Python code of the Sink's start() runs with the hook of line 413
\* installed and outside any trace function, so its frames are traced too
Deliver(t, f, k, a, p) ==
  /\ Runs(t) /\ pc[t] \in {"idle", "sink_start"} /\ t \in hooked
  /\ nops < MaxOps
  /\ Owner(f) = t
  /\ k = "call" => f \notin live
  /\ k = "line" => f_trace_lines[f] = 1
  /\ pc' = [pc EXCEPT ![t] = "dispatch"]
  /\ cur' = [cur EXCEPT ![t] = [frame |-> f, kind |-> k, arg |-> a, file |-> p]]
  /\ live' = IF k = "call" THEN live \cup {f}
             ELSE IF k = "return" THEN live \ {f} ELSE live
  /\ f_trace_lines' = IF k = "call" THEN [f_trace_lines EXCEPT ![f] = 1]
                      ELSE f_trace_lines
  /\ retired' = IF k = "call" THEN retired \ {f} ELSE retired
  /\ nops' = nops + 1
  /\ UNCHANGED <<hooked, sinkcall, matched, ret, pyerr, gil, cache_mutex, inj>>
  /\ UNCHANGED <<path_cache, active_frames, bad_frame, crashed>>
  /\ callFailed' = IF k = "call" THEN callFailed \ {f} ELSE callFailed
  /\ UNCHANGED <<suppressed, mcalls, mfailed, decided, retryDue, stopped>>
  /\ UNCHANGED <<printed, starting, sideVars>>

\* the runtime takes the status the trace function returned (and what it left
\* in the error indicator) and goes on running the traced program
HostResume(t) ==
  /\ Runs(t) /\ pc[t] = "returned"
  /\ pc' = [pc EXCEPT ![t] = IF t \in starting THEN "sink_start" ELSE "idle"]
  /\ sinkcall' = [sinkcall EXCEPT ![t] =
                    IF t \in starting THEN [method |-> "start", args |-> <<>>]
                    ELSE NoCall]
  /\ cur' = [cur EXCEPT ![t] = NoEvent]
  /\ ret' = [ret EXCEPT ![t] = NoRet]
  /\ pyerr' = [pyerr EXCEPT ![t] = FALSE]
  /\ printed' = [printed EXCEPT ![t] = FALSE]
  /\ UNCHANGED <<hooked, matched, gil, cache_mutex, inj>>
  /\ UNCHANGED <<dataVars, suppressed, mcalls, mfailed, decided, retryDue, retired, stopped, nops>>
  /\ UNCHANGED <<callFailed, starting, sideVars>>

\* a frame's invocation ends on a thread that has no hook installed
FrameExit(t, f) ==
  /\ Runs(t) /\ pc[t] = "idle" /\ t \notin hooked
  /\ Owner(f) = t /\ f \in live
  /\ live' = live \ {f}
  /\ suppressed' = suppressed \ {f}
  /\ callFailed' = callFailed \ {f}
  /\ UNCHANGED <<progVars, path_cache, active_frames, bad_frame, f_trace_lines, crashed>>
  /\ UNCHANGED <<mcalls, mfailed, decided, retryDue, retired, stopped, nops>>
  /\ UNCHANGED <<printed, starting, sideVars>>

\* trace_dispatch, lines 215-240, up to the first Python call or lock; for
\* an opcode event the whole of handle_opcode_event up to the Sink call
TraceDispatch(t) ==
  LET f == cur[t].frame
      k == cur[t].kind
  IN
  /\ Runs(t) /\ pc[t] = "dispatch"
  /\ \/ /\ IsBadFrame(f)
        /\ bad_frame' = IF ClearsGuard(k) THEN nullptr ELSE bad_frame
        /\ Returns(t, RetOk)
        /\ suppressed' = AfterEvent(cur[t])
        /\ UNCHANGED crashed
     \/ /\ ~IsBadFrame(f) /\ ConsultsPolicy(k)
        /\ pc' = [pc EXCEPT ![t] = "is_excluded"]
        /\ UNCHANGED <<cur, sinkcall, matched, ret, bad_frame, suppressed, crashed>>
     \/ /\ ~IsBadFrame(f) /\ k \in {"return", "line", "exception"}
        /\ pc' = [pc EXCEPT ![t] = "lock_event"]
        /\ UNCHANGED <<cur, sinkcall, matched, ret, bad_frame, suppressed, crashed>>
     \/ /\ ~IsBadFrame(f) /\ k = "opcode"
        /\ \E instr \in Instrs, sp \in Stacks :
             LET d == Decode(f, instr, sp)
             IN  \/ /\ d.method = "none"
                    /\ Returns(t, RetOk)
                    /\ UNCHANGED crashed
                 \/ /\ d.method = "crash"
                    /\ crashed' = TRUE
                    /\ UNCHANGED <<pc, cur, sinkcall, matched, ret>>
                 \/ /\ d.method = "handle_opcode"
                    /\ pc' = [pc EXCEPT ![t] = "sink_opcode"]
                    /\ sinkcall' = [sinkcall EXCEPT ![t] = d]
                    /\ UNCHANGED <<cur, matched, ret, crashed>>
        /\ UNCHANGED <<bad_frame, suppressed>>
  /\ retired' = IF IsBadFrame(f) /\ k = "return" /\ IsActive(f)
                THEN retired \cup {f} ELSE retired
  /\ UNCHANGED <<hooked, pyerr, gil, cache_mutex, inj>>
  /\ UNCHANGED <<path_cache, active_frames, f_trace_lines, live>>
  /\ UNCHANGED <<mcalls, mfailed, decided, retryDue, stopped, nops>>
  /\ UNCHANGED <<sinkVars, sideVars>>

\* is_excluded_function, lines 122-132, returns to is_target_frame, lines
\* 143-146: r is what config.is_excluded_function did
IsExcludedReturn(t, r) ==
  LET f == cur[t].frame
  IN
  /\ Runs(t) /\ pc[t] = "is_excluded"
  /\ pyerr' = [pyerr EXCEPT ![t] = (r = "fail")]
  /\ \/ /\ r = "true"
        /\ bad_frame' = MarkExcluded(f)
        /\ suppressed' = suppressed \cup {f}
        /\ Returns(t, RetOk)
     \/ /\ r \in {"false", "fail"}
        /\ pc' = [pc EXCEPT ![t] = "lock_cache"]
        /\ UNCHANGED <<cur, sinkcall, matched, ret, bad_frame, suppressed>>
  /\ UNCHANGED <<hooked, gil, cache_mutex, inj>>
  /\ UNCHANGED <<path_cache, active_frames, f_trace_lines, crashed, live>>
  /\ UNCHANGED <<mcalls, mfailed, decided, retryDue, retired, stopped, nops>>
  /\ UNCHANGED <<sinkVars, sideVars>>

\* handle_call_event once is_target_frame has decided m for frame f, lines
\* 345-358: register and call the Sink, or return.  cache_mutex was released
\* by this thread in the same uninterrupted stretch, so line 347 gets it
CallDecided(t, f, m) ==
  /\ active_frames' = RegisterCall(f, m)
  /\ f_trace_lines' = LinesAfterDecision(f, m)
  /\ \/ /\ m
        /\ pc' = [pc EXCEPT ![t] = "sink_call"]
        /\ sinkcall' = [sinkcall EXCEPT ![t] =
                          [method |-> "handle_call", args |-> <<f>>]]
        /\ matched' = [matched EXCEPT ![t] = FALSE]
        /\ UNCHANGED <<cur, ret>>
     \/ /\ ~m
        /\ Returns(t, RetOk)

\* is_target_frame, lines 161-175: the cache lookup under cache_mutex; on a
\* miss match_filename is called with the mutex released
CacheLookup(t) ==
  LET f == cur[t].frame
      p == cur[t].file
  IN
  /\ Runs(t) /\ pc[t] = "lock_cache" /\ TryLock(t)
  /\ retryDue' = [retryDue EXCEPT ![p] = FALSE]
  /\ \/ /\ CacheHit(p)
        /\ CallDecided(t, f, path_cache[p])
        /\ decided' = [decided EXCEPT ![p] = @ \cup {path_cache[p]}]
        /\ UNCHANGED mcalls
     \/ /\ ~CacheHit(p)
        /\ pc' = [pc EXCEPT ![t] = "match_filename"]
        /\ mcalls' = [mcalls EXCEPT ![p] = Min(@ + 1, MaxCount)]
        /\ UNCHANGED <<cur, sinkcall, matched, ret, active_frames, f_trace_lines, decided>>
  /\ UNCHANGED <<hooked, pyerr, gil, cache_mutex, inj>>
  /\ UNCHANGED <<path_cache, bad_frame, crashed, live>>
  /\ UNCHANGED <<suppressed, mfailed, retired, stopped, nops>>
  /\ UNCHANGED <<sinkVars, sideVars>>

\* is_target_frame, lines 174-181: r is what config.match_filename did
MatchFilenameReturn(t, r) ==
  LET p == cur[t].file
  IN
  /\ Runs(t) /\ pc[t] = "match_filename"
  /\ pyerr' = [pyerr EXCEPT ![t] = (r = "fail")]
  /\ \/ /\ r = "fail"
        /\ Returns(t, RetOk)
        /\ mfailed' = [mfailed EXCEPT ![p] = TRUE]
        /\ retryDue' = [retryDue EXCEPT ![p] = TRUE]
     \/ /\ r \in {"true", "false"}
        /\ pc' = [pc EXCEPT ![t] = "lock_store"]
        /\ matched' = [matched EXCEPT ![t] = (r = "true")]
        /\ UNCHANGED <<cur, sinkcall, ret, mfailed, retryDue>>
  /\ UNCHANGED <<hooked, gil, cache_mutex, inj, dataVars>>
  /\ UNCHANGED <<suppressed, mcalls, decided, retired, stopped, nops>>
  /\ UNCHANGED <<sinkVars, sideVars>>

\* is_target_frame, lines 183-192: the result is stored under cache_mutex
StoreDecision(t) ==
  LET f == cur[t].frame
      p == cur[t].file
  IN
  /\ Runs(t) /\ pc[t] = "lock_store" /\ TryLock(t)
  /\ path_cache' = CacheStore(path_cache, p, matched[t])
  /\ decided' = [decided EXCEPT ![p] = @ \cup {matched[t]}]
  /\ CallDecided(t, f, matched[t])
  /\ UNCHANGED <<hooked, pyerr, gil, cache_mutex, inj>>
  /\ UNCHANGED <<bad_frame, crashed, live>>
  /\ UNCHANGED <<suppressed, mcalls, mfailed, retryDue, retired, stopped, nops>>
  /\ UNCHANGED <<sinkVars, sideVars>>

\* handle_return_event / handle_line_event / handle_exception_event, lines
\* 361-410, from taking cache_mutex to the Sink call made while holding it
LockEvent(t) ==
  LET e == cur[t]
  IN
  /\ Runs(t) /\ pc[t] = "lock_event" /\ TryLock(t)
  /\ \/ /\ ~IsActive(e.frame)
        /\ Returns(t, RetOk)
        /\ suppressed' = AfterEvent(e)
        /\ UNCHANGED <<cache_mutex, pyerr>>
     \/ /\ IsActive(e.frame) /\ e.kind = "exception" /\ ~UnpackOk(e.arg)
        /\ Returns(t, RetErr)
        /\ pyerr' = [pyerr EXCEPT ![t] = TRUE]
        /\ UNCHANGED <<cache_mutex, suppressed>>
     \/ /\ IsActive(e.frame) /\ (e.kind = "exception" => UnpackOk(e.arg))
        /\ cache_mutex' = HeldDuringSink(t)
        /\ pc' = [pc EXCEPT ![t] = "sink_" \o e.kind]
        /\ sinkcall' = [sinkcall EXCEPT ![t] = SinkCallOf(e)]
        /\ UNCHANGED <<cur, matched, ret, pyerr, suppressed>>
  /\ UNCHANGED <<hooked, gil, inj, dataVars>>
  /\ UNCHANGED <<mcalls, mfailed, decided, retryDue, retired, stopped, nops>>
  /\ UNCHANGED <<sinkVars, sideVars>>

\* a Sink call returns (ok) or raises (~ok); a NULL result is printed and
\* cleared by print_stack_trace (lines 355, 372, 387, 406, 418, 428).  The
\* handler then finishes
SinkReturn(t, ok) ==
  LET e == cur[t]
  IN
  /\ Runs(t) /\ pc[t] \in SinkPcs
  /\ pyerr' = [pyerr EXCEPT ![t] = FALSE]
  /\ \/ /\ pc[t] \in {"sink_start", "sink_stop"}
        /\ pc' = [pc EXCEPT ![t] = "idle"]
        /\ sinkcall' = [sinkcall EXCEPT ![t] = NoCall]
        /\ UNCHANGED <<cur, matched, ret, cache_mutex, active_frames, suppressed>>
     \/ /\ pc[t] = "sink_opcode"
        /\ Returns(t, RetOk)
        /\ UNCHANGED <<cache_mutex, active_frames, suppressed>>
     \/ /\ pc[t] = "sink_call"
        /\ active_frames' = AfterHandleCall(e.frame, ok)
        /\ Returns(t, RetOk)
        /\ UNCHANGED <<cache_mutex, suppressed>>
     \/ /\ pc[t] \in {"sink_line", "sink_exception"}
        /\ Returns(t, RetOk)
        /\ cache_mutex' = NoThread
        /\ UNCHANGED <<active_frames, suppressed>>
     \/ /\ pc[t] = "sink_return"
        /\ active_frames' = EraseOnReturn(e.frame)
        /\ Returns(t, RetOk)
        /\ cache_mutex' = NoThread
        /\ suppressed' = AfterEvent(e)
  /\ retired' = IF pc[t] = "sink_return" THEN retired \cup {e.frame} ELSE retired
  /\ stopped' = IF pc[t] = "sink_stop" /\ stopped = "stopping" THEN "yes"
                ELSE stopped
  /\ printed' = [printed EXCEPT ![t] = ~ok /\ pc[t] \in EventSinkPcs]
  /\ callFailed' = IF pc[t] = "sink_call" /\ ~ok THEN callFailed \cup {e.frame}
                   ELSE callFailed
  /\ starting' = IF pc[t] = "sink_start" THEN starting \ {t} ELSE starting
  /\ UNCHANGED <<hooked, gil, inj>>
  /\ UNCHANGED <<path_cache, bad_frame, f_trace_lines, crashed, live>>
  /\ UNCHANGED <<mcalls, mfailed, decided, retryDue, nops>>
  /\ UNCHANGED sideVars

\* Python code running on thread t (the traced program, the Sink or the
\* config) calls add_target_frame(f), lines 468-484
AddTargetFrameCall(t, f) ==
  /\ Runs(t) /\ pc[t] \in PythonPcs
  /\ nops < MaxOps
  /\ inj' = [inj EXCEPT ![t] = f]
  /\ nops' = nops + 1
  /\ UNCHANGED <<hooked, pc, cur, sinkcall, matched, ret, pyerr, gil, cache_mutex>>
  /\ UNCHANGED <<dataVars, suppressed, mcalls, mfailed, decided, retryDue, retired, stopped>>
  /\ UNCHANGED <<sinkVars, sideVars>>

\* add_target_frame, lines 242-247, once cache_mutex is free
AddTargetFrame(t) ==
  /\ ~crashed /\ gil = t /\ inj[t] # nullptr
  /\ TryLock(t)
  /\ active_frames' = InsertTarget(inj[t])
  /\ f_trace_lines' = RequestLines(inj[t])
  /\ inj' = [inj EXCEPT ![t] = nullptr]
  /\ UNCHANGED <<hooked, pc, cur, sinkcall, matched, ret, pyerr, gil, cache_mutex>>
  /\ retired' = retired \ {inj[t]}
  /\ UNCHANGED <<path_cache, bad_frame, crashed, live>>
  /\ UNCHANGED <<suppressed, mcalls, mfailed, decided, retryDue, stopped, nops>>
  /\ UNCHANGED <<sinkVars, sideVars>>

\* add_target_frame, line 243, called by a thread that owns cache_mutex (from
\* the Sink callback of a Line, Return or Exception event): locking a
\* std::mutex its caller owns is undefined.  The thread either waits for
\* itself for ever (no step) or the lock fails with an exception that leaves
\* the extension function and ends the process
AddTargetFrameRelock(t) ==
  /\ ~crashed /\ gil = t /\ inj[t] # nullptr
  /\ cache_mutex = t
  /\ crashed' = TRUE
  /\ UNCHANGED <<progVars, path_cache, active_frames, bad_frame, f_trace_lines, live>>
  /\ UNCHANGED <<histVars, sideVars>>

\* the interpreter hands the gil from t, executing Python code, to u
YieldGIL(t, u) ==
  /\ Runs(t) /\ pc[t] \in PythonPcs
  /\ u # t
  /\ gil' = u
  /\ UNCHANGED <<hooked, pc, cur, sinkcall, matched, ret, pyerr, cache_mutex, inj>>
  /\ UNCHANGED <<dataVars, histVars>>
  /\ UNCHANGED sideVars

Next ==
  \/ \E t \in Threads : Start(t)
  \/ \E t \in Threads : Stop(t)
  \/ \E t \in Threads, f \in Frames, k \in Kinds : \E a \in ArgsOf(k), p \in FilesOf(k) : Deliver(t, f, k, a, p)
  \/ \E t \in Threads : HostResume(t)
  \/ \E t \in Threads, f \in Frames : FrameExit(t, f)
  \/ \E t \in Threads : TraceDispatch(t)
  \/ \E t \in Threads, r \in {"true", "false", "fail"} : IsExcludedReturn(t, r)
  \/ \E t \in Threads : CacheLookup(t)
  \/ \E t \in Threads, r \in {"true", "false", "fail"} : MatchFilenameReturn(t, r)
  \/ \E t \in Threads : StoreDecision(t)
  \/ \E t \in Threads : LockEvent(t)
  \/ \E t \in Threads, ok \in BOOLEAN : SinkReturn(t, ok)
  \/ \E t \in Threads, f \in Frames : AddTargetFrameCall(t, f)
  \/ \E t \in Threads : AddTargetFrame(t)
  \/ \E t \in Threads : AddTargetFrameRelock(t)
  \/ \E t \in Threads, u \in Threads : YieldGIL(t, u)

Spec == Init /\ [][Next]_vars

\* a step of the handler running on thread t, of a collaborator it called, or
\* of the runtime taking back control from it
HandlerStep(t) ==
  \/ TraceDispatch(t)
  \/ \E r \in {"true", "false", "fail"} : IsExcludedReturn(t, r)
  \/ CacheLookup(t)
  \/ \E r \in {"true", "false", "fail"} : MatchFilenameReturn(t, r)
  \/ StoreDecision(t)
  \/ LockEvent(t)
  \/ \E ok \in BOOLEAN : SinkReturn(t, ok)
  \/ AddTargetFrame(t)
  \/ HostResume(t)

\* the tracer with its scheduling: a thread that gets the gil again and again
\* with a step of its handler to take does take it (C++ code runs, and Sink
\* and policy calls return), and a thread that executes Python code hands the
\* gil over to a thread that waits for it
Fairness ==
  /\ \A t \in Threads : SF_vars(HandlerStep(t))
  /\ \A t \in Threads, u \in Threads : WF_vars(YieldGIL(t, u))

SpecLive == Spec /\ Fairness

\* ------------------------------------------------------------ construction
\* filesystems: sets of existing directories, closed under parent
IsPrefixClosed(S) ==
  \A d \in S : Len(d) > 1 => SubSeq(d, 1, Len(d) - 1) \in S
FileSystems == {S \in SUBSET (NameSeqs \ {<<>>}) : IsPrefixClosed(S)}

\* before TraceDispatcher(...) is called: any filesystem, any existing
\* working directory, any arguments
InitCtor ==
  /\ InitTracer
  /\ fsys \in FileSystems
  /\ cwd \in fsys \cup {<<>>}
  /\ init_args \in InitArgs
  /\ allocated = FALSE
  /\ dispatcher = NoDispatcher
  /\ init_ret = NoRet
  /\ prev_instr = NoInstr
  /\ stack = NoStack
  /\ forwarded = NoCall
  /\ InitNoParse

\* TraceDispatcher_new, lines 437-446
TraceDispatcher_new ==
  /\ ~allocated
  /\ allocated' = TRUE
  /\ dispatcher' = NoDispatcher
  /\ UNCHANGED <<fsys, cwd, init_args, init_ret>>
  /\ UNCHANGED <<tracerVars, decoderVars, parserVars>>

\* TraceDispatcher_init, lines 498-514, with the constructor, lines 196-202.
\* fs::absolute of an empty path throws in libstdc++ (the exception leaves a
\* C function: std::terminate) and yields current_path() in libc++
TraceDispatcher_init ==
  /\ allocated /\ init_ret = NoRet /\ ~crashed
  /\ \/ /\ ~init_args.ok
        /\ init_ret' = RetErr
        /\ UNCHANGED <<dispatcher, crashed>>
     \/ /\ init_args.ok
        /\ dispatcher' = NewDispatcher(init_args.target_path)
        /\ init_ret' = RetOk
        /\ UNCHANGED crashed
     \/ /\ init_args.ok
        /\ init_args.target_path = NoDispatcher.target_path
        /\ crashed' = TRUE
        /\ UNCHANGED <<dispatcher, init_ret>>
  /\ UNCHANGED <<fsys, cwd, init_args, allocated>>
  /\ UNCHANGED <<progVars, path_cache, active_frames, bad_frame, f_trace_lines, live>>
  /\ UNCHANGED <<histVars, decoderVars, parserVars>>

NextCtor ==
  \/ TraceDispatcher_new
  \/ TraceDispatcher_init

SpecCtor == InitCtor /\ [][NextCtor]_vars

\* ------------------------------------------------------ the operand parser
\* parse_operands of src/debugger/lldb/op_parser/op_parser.c.  Characters are
\* one-letter strings, NUL is the terminator '\0'
NUL == ""
Chars == {"x", "0", "#", "[", "]", ",", " ", ";"}
Strings == UNION {[1..n -> Chars] : n \in 0..MaxStrLen}

\* <ctype.h> in the C locale, on the characters above
isspace(c) == c = " "
isalpha(c) == c = "x"
isxdigit(c) == c = "0"
isalnum(c) == isalpha(c) \/ c = "0"

\* lines 151-157: the string up to its first ';'
RECURSIVE StripComment(_)
StripComment(s) ==
  IF s = <<>> \/ Head(s) = ";" THEN <<>> ELSE <<Head(s)>> \o StripComment(Tail(s))

\* lines 160-162: trailing white space is cut off
RECURSIVE TrimRight(_)
TrimRight(s) ==
  IF s # <<>> /\ isspace(s[Len(s)]) THEN TrimRight(SubSeq(s, 1, Len(s) - 1)) ELSE s

\* lines 163-168: leading white space is cut off
RECURSIVE TrimLeft(_)
TrimLeft(s) == IF s # <<>> /\ isspace(Head(s)) THEN TrimLeft(Tail(s)) ELSE s

\* lines 150-168: clean_str
CleanStr(s) == TrimLeft(TrimRight(StripComment(s)))

\* clean_str[pos], pos counting from 0; the terminator at pos = len
At(cs, pos) == IF pos < Len(cs) THEN cs[pos + 1] ELSE NUL

\* lines 245-246, 278-279, 301-302: while (pos < len && isspace(...)) pos++
RECURSIVE SkipSpaces(_, _)
SkipSpaces(cs, pos) ==
  IF pos < Len(cs) /\ isspace(At(cs, pos)) THEN SkipSpaces(cs, pos + 1) ELSE pos

MemStates == {"STATE_IN_MEM_BASE", "STATE_IN_MEM_INDEX", "STATE_IN_MEM_OFFSET",
              "STATE_IN_MEM_SHIFT", "STATE_IN_MEM_SHIFT_AMOUNT"}

\* lines 140-147: the locals before the loop
ParseStart == [state |-> "STATE_START", pos |-> 0, buf_pos |-> 0,
               op_count |-> 0, ops |-> <<>>]

\* ops[op_count].type = type; ...; op_count++; buf_pos = 0: ops is the list of
\* the stores made, each with the index it went to
StoreOperand(st, type) ==
  [st EXCEPT !.ops = Append(@, [index |-> st.op_count, type |-> type]),
             !.op_count = @ + 1,
             !.buf_pos = 0]

\* buffer[buf_pos++] = c, then the pos++ of line 405
Collect(st) == [st EXCEPT !.buf_pos = @ + 1, !.pos = @ + 1]

\* lines 197-206, 214-223, 375-384, 390-399: an operand kept in value ends
EndValue(st, c, type) ==
  [StoreOperand(st, type) EXCEPT !.state = "STATE_START",
                                 !.pos = IF c = "," THEN @ + 1 ELSE @]

\* lines 235-241 and alike: a memory reference ends, pos++ and continue
EndMemRef(st) ==
  [StoreOperand(st, "OPERAND_MEMREF") EXCEPT !.state = "STATE_START", !.pos = @ + 1]

\* LoopCond without the capacity test
LoopCond_NoCapacity(st, len, cap) == st.pos <= len

\* line 170: while (pos <= len && op_count < max_ops)
LoopCond(st, len, cap) == st.pos <= len /\ st.op_count < cap

\* lines 171-405: one iteration of the loop
LoopBody(st, cs) ==
  LET len == Len(cs)
      pos == st.pos
      c == At(cs, pos)
      next == [st EXCEPT !.pos = @ + 1]
  IN
  CASE st.state = "STATE_START" ->
         IF c \in {"x", "w", "s", "d"}
         THEN [Collect(st) EXCEPT !.state = "STATE_IN_REG"]
         ELSE IF c = "#"
         THEN [Collect(st) EXCEPT !.state = "STATE_IN_IMM"]
         ELSE IF c = "["
         THEN [next EXCEPT !.state = "STATE_IN_MEM_BASE"]
         ELSE IF c = "0" /\ pos + 1 < len /\ At(cs, pos + 1) = "x"
         THEN [st EXCEPT !.state = "STATE_IN_ADDR", !.buf_pos = @ + 2, !.pos = @ + 2]
         ELSE IF ~isspace(c)
         THEN [Collect(st) EXCEPT !.state = "STATE_IN_OTHER"]
         ELSE next
    [] st.state = "STATE_IN_REG" ->
         IF isalnum(c) THEN Collect(st) ELSE EndValue(st, c, "OPERAND_REGISTER")
    [] st.state = "STATE_IN_IMM" ->
         IF isxdigit(c) \/ c = "x" THEN Collect(st)
         ELSE EndValue(st, c, "OPERAND_IMMEDIATE")
    [] st.state = "STATE_IN_MEM_BASE" ->
         IF c \in {"]", NUL} THEN EndMemRef(st)
         ELSE IF c = ","
         THEN LET q == SkipSpaces(cs, pos + 1)
              IN  [st EXCEPT !.buf_pos = 0, !.pos = q,
                     !.state = IF q < len /\ At(cs, q) \in {"x", "w"}
                               THEN "STATE_IN_MEM_INDEX"
                               ELSE IF At(cs, q) = "#" THEN "STATE_IN_MEM_OFFSET"
                               ELSE "STATE_START"]
         ELSE Collect(st)
    [] st.state = "STATE_IN_MEM_INDEX" ->
         IF c \in {"]", NUL} THEN EndMemRef(st)
         ELSE IF c = ","
         THEN [st EXCEPT !.buf_pos = 0, !.pos = SkipSpaces(cs, pos + 1),
                         !.state = "STATE_IN_MEM_SHIFT"]
         ELSE Collect(st)
    [] st.state = "STATE_IN_MEM_SHIFT" ->
         IF c \in {"]", NUL} THEN EndMemRef(st)
         ELSE IF c = ","
         THEN [st EXCEPT !.pos = SkipSpaces(cs, pos + 1),
                         !.state = "STATE_IN_MEM_OFFSET"]
         ELSE IF isspace(c) THEN next
         ELSE IF isalpha(c) THEN Collect(st)
         ELSE IF c = "#"
         THEN [st EXCEPT !.buf_pos = 1, !.pos = @ + 1,
                         !.state = "STATE_IN_MEM_SHIFT_AMOUNT"]
         ELSE next
    [] st.state = "STATE_IN_MEM_SHIFT_AMOUNT" ->
         IF c \in {"]", NUL}
         THEN [StoreOperand(st, "OPERAND_MEMREF") EXCEPT
                 !.state = "STATE_START", !.pos = IF c # NUL THEN @ + 1 ELSE @]
         ELSE IF c = ","
         THEN [st EXCEPT !.buf_pos = 0, !.pos = @ + 1, !.state = "STATE_IN_MEM_OFFSET"]
         ELSE IF isspace(c)
         THEN [st EXCEPT !.buf_pos = 0, !.state = "STATE_IN_MEM_SHIFT"]
         ELSE Collect(st)
    [] st.state = "STATE_IN_MEM_OFFSET" ->
         IF c \in {"]", NUL} THEN EndMemRef(st) ELSE Collect(st)
    [] st.state = "STATE_IN_ADDR" ->
         IF isxdigit(c) THEN Collect(st) ELSE EndValue(st, c, "OPERAND_ADDRESS")
    [] st.state = "STATE_IN_OTHER" ->
         IF c \in {",", " ", NUL} THEN EndValue(st, c, "OPERAND_OTHER")
         ELSE Collect(st)

\* lines 170-406: the loop
RECURSIVE Loop(_, _, _)
Loop(st, cs, cap) ==
  IF LoopCond(st, Len(cs), cap) THEN Loop(LoopBody(st, cs), cs, cap) ELSE st

\* lines 408-425: a memory reference still open after the loop is stored
LastOperand(st) ==
  IF st.state \in MemStates THEN StoreOperand(st, "OPERAND_MEMREF") ELSE st

\* parse_operands(s, ops, cap), lines 139-428: the count returned, the stores
\* made to ops and the state the loop ended in
parse_operands(s, cap) ==
  LET st == LastOperand(Loop(ParseStart, CleanStr(s), cap))
  IN  [count |-> st.op_count, ops |-> st.ops, state |-> st.state]

\* any string, any capacity
InitParser ==
  /\ InitTracer
  /\ InitConstructed
  /\ prev_instr = NoInstr
  /\ stack = NoStack
  /\ forwarded = NoCall
  /\ str \in Strings
  /\ max_ops \in 0..MaxOperands
  /\ parsed = NotParsed

\* a call of parse_operands(str, ops, max_ops)
ParseOperands ==
  /\ parsed = NotParsed
  /\ parsed' = parse_operands(str, max_ops)
  /\ UNCHANGED <<str, max_ops>>
  /\ UNCHANGED <<tracerVars, ctorVars, decoderVars>>

NextParser == ParseOperands

SpecParser == InitParser /\ [][NextParser]_vars

\* ------------------------------------------------------------------ claims
LREKinds == {"line", "return", "exception"}
LRESinkPcs == {"sink_line", "sink_return", "sink_exception"}

\* C1: from the Call that finds frame f's function excluded up to the
\* handling of f's Return, no Sink event callback is called for an event of f.
C1_NoSinkCallWhileExcluded ==
  \A t \in Threads : pc[t] \in EventSinkPcs => cur[t].frame \notin suppressed

\* a handle_line, handle_return or handle_exception call is in progress only
\* for a frame that is in the registry
ForwardedOnlyIfRegistered ==
  \A t \in Threads : pc[t] \in LRESinkPcs => cur[t].frame \in active_frames

\* thread t takes a step of handling a Line, Return or Exception event of a
\* frame that is not registered
UnregisteredStep(t) ==
  /\ pc[t] \in {"dispatch", "lock_event"}
  /\ pc'[t] # pc[t]
  /\ cur[t].kind \in LREKinds
  /\ cur[t].frame \notin active_frames

\* such a step makes no Sink call, returns success and leaves the registry,
\* the cache and the per-line flags alone
DropsQuietly(t) ==
  /\ pc'[t] \in {"lock_event", "returned"}
  /\ pc'[t] = "returned" => ret'[t] = RetOk
  /\ UNCHANGED <<path_cache, active_frames, f_trace_lines, pyerr, crashed>>

\* C2 as stated: a Line, Return or Exception event is forwarded only for a
\* registered frame; for an unregistered frame it makes no Sink call, changes
\* no state (the guard slot included) and returns success.
C2_UnregisteredChangesNothing ==
  [][/\ ForwardedOnlyIfRegistered'
     /\ \A t \in Threads :
          UnregisteredStep(t) => DropsQuietly(t) /\ bad_frame' = bad_frame]_vars

\* C2 amended: as C2, except that the Return or Exception event of the guard
\* occupant clears the guard slot; nothing else changes.
C2_UnregisteredDropped ==
  [][/\ ForwardedOnlyIfRegistered'
     /\ \A t \in Threads :
          UnregisteredStep(t) =>
            /\ DropsQuietly(t)
            /\ \/ bad_frame' = bad_frame
               \/ /\ bad_frame = cur[t].frame
                  /\ ClearsGuard(cur[t].kind)
                  /\ bad_frame' = nullptr]_vars

\* a Line event of an unregistered frame has been dropped with success
C2_Witness ==
  \E t \in Threads :
    /\ pc[t] = "returned" /\ cur[t].kind = "line"
    /\ cur[t].frame \notin active_frames /\ ret[t] = RetOk

NewlyRegistered(f) == f \in active_frames' /\ f \notin active_frames

\* the step is the acceptance of f's Call: the path decision is `included'
\* and f is not the guard occupant
ByAcceptedCall(f) ==
  \E t \in Threads :
    /\ cur[t].frame = f /\ cur[t].kind = "call"
    /\ pc[t] \in {"lock_cache", "lock_store"} /\ pc'[t] = "sink_call"
    /\ ~IsBadFrame(f)
    /\ cur[t].file \in DOMAIN path_cache'
    /\ path_cache'[cur[t].file]

\* the step is add_target_frame(f) taking effect
ByInjection(f) == \E t \in Threads : inj[t] = f /\ inj'[t] = nullptr

\* C3 as stated: a frame enters the registry only by the acceptance of its
\* own Call event; no other operation inserts a frame.
C3_OnlyCallRegisters ==
  [][\A f \in Frames : NewlyRegistered(f) => ByAcceptedCall(f)]_vars

\* C3 amended: a frame enters the registry only by the acceptance of its own
\* Call event (decision included, frame not the guard occupant) or by manual
\* injection (add_target_frame).
C3_CallOrInjectionRegisters ==
  [][\A f \in Frames :
       NewlyRegistered(f) => ByAcceptedCall(f) \/ ByInjection(f)]_vars

\* an accepted Call has registered its frame and is calling handle_call
C3_Witness ==
  \E t \in Threads : pc[t] = "sink_call" /\ cur[t].frame \in active_frames

\* C4: the guard slot changes only from Idle to Marked(f) on a Call of f
\* found excluded, and from Marked(f) to Idle on f's own Return or Exception.
C4_GuardTransitions ==
  [][bad_frame' # bad_frame =>
       \/ /\ bad_frame = nullptr
          /\ \E t \in Threads :
               /\ pc[t] = "is_excluded" /\ pc'[t] = "returned"
               /\ cur[t].frame = bad_frame'
       \/ /\ bad_frame # nullptr /\ bad_frame' = nullptr
          /\ \E t \in Threads :
               /\ pc[t] = "dispatch" /\ cur[t].frame = bad_frame
               /\ ClearsGuard(cur[t].kind)]_vars

\* C5: absent matcher failures, match_filename is invoked at most once per
\* path.
C5_MatcherAtMostOnce ==
  \A p \in Paths : ~mfailed[p] => mcalls[p] <= 1

\* C6: a cached decision is never removed and never changes.
C6_CacheImmutable ==
  [][\A p \in DOMAIN path_cache :
       p \in DOMAIN path_cache' /\ path_cache'[p] = path_cache[p]]_vars

\* some thread is between the cache miss for path p and the store
Deciding(p) ==
  \E t \in Threads : pc[t] \in {"match_filename", "lock_store"} /\ cur[t].file = p

\* C7: for a path whose matcher calls do not fail, all decide evaluations
\* return the same boolean, the one the cache holds once they have completed.
C7_DecideConsistent ==
  \A p \in Paths :
    ~mfailed[p] =>
      /\ Cardinality(decided[p]) <= 1
      /\ (CacheHit(p) /\ ~Deciding(p)) => decided[p] \subseteq {path_cache[p]}

\* C8: a failed match_filename call makes the decision `excluded' (no
\* registration, no Sink call), stores nothing, and the next decide for the
\* path invokes match_filename again.
C8_FailureRetried ==
  [][\A t \in Threads :
       /\ (pc[t] = "match_filename" /\ pc'[t] # pc[t] /\ pyerr'[t]) =>
            /\ pc'[t] = "returned"
            /\ UNCHANGED <<path_cache, active_frames>>
       /\ (pc[t] = "lock_cache" /\ pc'[t] # pc[t] /\ retryDue[cur[t].file]) =>
            pc'[t] = "match_filename"]_vars

\* C9: the dispatcher never returns an error status to the runtime.
C9_AlwaysSuccess == \A t \in Threads : ret[t] # RetErr

\* C10: when the handler of a Call event returns, it returns success and
\* leaves no error pending.
C10_NoErrorLeft ==
  \A t \in Threads :
    (pc[t] = "returned" /\ cur[t].kind = "call") => ret[t] = RetOk /\ ~pyerr[t]

\* C11: once a Return event of frame f has been handled, f is not in the
\* registry, however f was registered and whatever the guard held.
C11_ReturnUnregisters ==
  \A t \in Threads :
    (pc[t] = "returned" /\ cur[t].kind = "return") =>
      cur[t].frame \notin active_frames

\* thread t takes a step of handling a Return event of a registered frame
RegisteredReturnStep(t) ==
  /\ pc[t] \in {"dispatch", "lock_event"}
  /\ pc'[t] # pc[t]
  /\ cur[t].kind = "return"
  /\ cur[t].frame \in active_frames

\* thread t takes a step of handling a further Return event of a frame that
\* already got a Return while it was registered
SecondReturnStep(t) ==
  /\ pc[t] \in {"dispatch", "lock_event"}
  /\ pc'[t] # pc[t]
  /\ cur[t].kind = "return"
  /\ cur[t].frame \in retired

\* C12: the first Return of a registered frame makes one handle_return call
\* and removes the frame; a second Return of the frame makes no Sink call and
\* changes neither registry, cache nor guard.
C12_ReturnOnce ==
  [][\A t \in Threads :
       /\ RegisteredReturnStep(t) /\ cur[t].frame \notin retired =>
            pc'[t] \in {"lock_event", "sink_return"}
       /\ (pc[t] = "sink_return" /\ pc'[t] # pc[t]) =>
            pc'[t] = "returned" /\ cur[t].frame \notin active_frames'
       /\ SecondReturnStep(t) =>
            /\ pc'[t] \in {"lock_event", "returned"}
            /\ UNCHANGED <<active_frames, path_cache, bad_frame>>]_vars

\* C13: a frame leaves the registry only when the handling of its own Return
\* event finishes; no other event, no injection, no start() or stop() removes
\* a registered frame.
C13_OnlyReturnRemoves ==
  [][\A f \in Frames :
       (f \in active_frames /\ f \notin active_frames') =>
         \E t \in Threads :
           /\ pc[t] = "sink_return" /\ pc'[t] = "returned"
           /\ cur[t].frame = f /\ cur[t].kind = "return"]_vars

\* the Return of a registered frame has been handled and has removed it
C13_Witness ==
  \E t \in Threads :
    /\ pc[t] = "returned" /\ cur[t].kind = "return"
    /\ cur[t].frame \in retired /\ cur[t].frame \notin active_frames

\* the positions of a handler from which it makes its Sink call
PreSinkPcs == {"dispatch", "lock_cache", "lock_store", "lock_event"}

\* C14: an event causes at most one Sink call, the call of the handler of
\* that event; the call has completed when the dispatcher returns, is not
\* repeated when it fails, and the next event of the thread is delivered only
\* after the dispatcher has returned.
C14_SynchronousInOrder ==
  [][\A t \in Threads :
       /\ (pc'[t] \in EventSinkPcs /\ pc[t] # pc'[t]) =>
            /\ pc[t] \in PreSinkPcs
            /\ cur'[t] = cur[t]
            /\ sinkcall'[t].method = "handle_" \o cur[t].kind
            /\ cur[t].kind # "exception" => sinkcall'[t].args[1] = cur[t].frame
       /\ (pc[t] \in EventSinkPcs /\ pc'[t] # pc[t]) =>
            pc'[t] = "returned" /\ sinkcall'[t] = NoCall
       /\ (pc[t] = "returned" /\ pc'[t] # pc[t]) =>
            pc'[t] \in {"idle", "sink_start"}
       /\ (pc'[t] = "dispatch" /\ pc[t] # pc'[t]) =>
            /\ pc[t] \in {"idle", "sink_start"}
            /\ sinkcall[t].method \notin {"handle_call", "handle_line",
                   "handle_return", "handle_exception", "handle_opcode"}]_vars

\* a Return event of a registered frame has been forwarded and its handler
\* has returned
C14_Witness ==
  \E t \in Threads :
    /\ pc[t] = "returned" /\ cur[t].kind = "return" /\ ret[t] = RetOk
    /\ cur[t].frame \in retired /\ sinkcall[t] = NoCall
    /\ ~IsBadFrame(cur[t].frame)

\* ------------------------------------------------ the decoder in isolation
\* synthetic frames: any instruction, any operand stack of MaxArgs + 2 slots
\* holding distinguishable objects or NULL
SynthFrame == 1
SynthObjects == {1, 2, 3, 4}
SynthStacks == [1..(MaxArgs + 2) -> SynthObjects \cup {NULL}]
SynthInstrs == [code : Opcodes, arg : 0..MaxArgs]

\* handle_opcode_event has not run yet
Pending == [method |-> "pending", args |-> <<>>]

InitDecoder ==
  /\ InitTracer
  /\ InitConstructed
  /\ prev_instr \in SynthInstrs
  /\ stack \in SynthStacks
  /\ forwarded = Pending
  /\ InitNoParse

\* handle_opcode_event, lines 249-342, on the synthetic frame
HandleOpcodeEvent ==
  LET d == Decode(SynthFrame, prev_instr, stack)
  IN
  /\ forwarded = Pending /\ ~crashed
  /\ IF d.method = "crash"
     THEN crashed' = TRUE /\ UNCHANGED forwarded
     ELSE forwarded' = d /\ UNCHANGED crashed
  /\ stack' = StackAfter(prev_instr, stack)
  /\ UNCHANGED <<prev_instr, ctorVars, parserVars>>
  /\ UNCHANGED <<progVars, path_cache, active_frames, bad_frame, f_trace_lines, live>>
  /\ UNCHANGED histVars

NextDecoder == HandleOpcodeEvent

SpecDecoder == InitDecoder /\ [][NextDecoder]_vars

\* the directory a root path denotes exists on the filesystem
Exists(p) == absolute(p).names \in fsys \cup {<<>>}

\* C15: construction with a root path that does not exist fails with an
\* error and creates no dispatcher; it succeeds only for an existing root.
C15_MissingRootRejected ==
  /\ (init_ret # NoRet /\ init_args.ok /\ ~Exists(init_args.target_path)) =>
       init_ret = RetErr /\ ~dispatcher.constructed
  /\ dispatcher.constructed => Exists(init_args.target_path)

\* thread t takes a step of handling a Line event of a registered frame
RegisteredLineStep(t) ==
  /\ pc[t] \in {"dispatch", "lock_event"}
  /\ pc'[t] # pc[t]
  /\ cur[t].kind = "line"
  /\ cur[t].frame \in active_frames

\* add_target_frame(f) takes effect: f is registered and its per-line flag is
\* on, no policy call is made and the cache is neither read nor written
InjectionBypassesFilter ==
  \A t \in Threads :
    (inj[t] # nullptr /\ inj'[t] = nullptr) =>
      /\ inj[t] \in active_frames'
      /\ f_trace_lines'[inj[t]] = 1
      /\ UNCHANGED <<pc, path_cache, mcalls, bad_frame>>

\* C16 as stated: add_target_frame(f) registers f and turns its per-line flag
\* on without consulting the policy or the cache, and later Line events of f
\* are forwarded to the Sink.
C16_InjectedLinesForwarded ==
  [][/\ InjectionBypassesFilter
     /\ \A t \in Threads :
          RegisteredLineStep(t) => pc'[t] \in {"lock_event", "sink_line"}]_vars

\* handle_opcode_event has returned or has crashed the process
Decoded == forwarded # Pending \/ crashed

\* the n arguments of a CALL declaring n, in push order: a1 is the deepest
PushedArgs(n) == [i \in 1..n |-> stack[n + 1 - i]]
ArgsPresent(n) == \A i \in 1..n : stack[i] # NULL

Invocation(callable, args, is_method) ==
  [method |-> "handle_opcode",
   args |-> <<SynthFrame, "CALL", callable, Append(args, is_method)>>]

\* C17 as stated: for a CALL declaring n arguments on a stack holding, bottom
\* to top, the callable C, the receiver slot and a1..an, the decoder forwards
\* callable C with args [R, a1..an] and isMethodCall true when the receiver
\* slot holds R, and callable C with args [a1..an] and isMethodCall false when
\* the receiver slot is empty.
C17_CallAsStated ==
  LET n == prev_instr.arg
  IN  (Decoded /\ prev_instr.code = "CALL" /\ stack[n + 2] # NULL /\ ArgsPresent(n)) =>
        IF stack[n + 1] # NULL
        THEN forwarded = Invocation(stack[n + 2], <<stack[n + 1]>> \o PushedArgs(n), Py_True)
        ELSE forwarded = Invocation(stack[n + 2], PushedArgs(n), Py_False)

\* C17 amended: the two slots below the arguments are, bottom to top, a
\* method slot M and a slot S.  When M holds an object the decoder forwards
\* callable M with args [S, a1..an] (S is the receiver) and isMethodCall true;
\* when M is empty, S is the callable and the decoder forwards callable S with
\* args [a1..an] and isMethodCall false.
C17_CallDecoded ==
  LET n == prev_instr.arg
  IN  (Decoded /\ prev_instr.code = "CALL" /\ stack[n + 1] # NULL /\ ArgsPresent(n)) =>
        IF stack[n + 2] # NULL
        THEN forwarded = Invocation(stack[n + 2], <<stack[n + 1]>> \o PushedArgs(n), Py_True)
        ELSE forwarded = Invocation(stack[n + 1], PushedArgs(n), Py_False)

\* C, R, a1, a2 with a CALL declaring 2 arguments has been decoded as a
\* method call with args [R, a1, a2]
C17_Witness ==
  /\ prev_instr = [code |-> "CALL", arg |-> 2]
  /\ stack[4] = 1 /\ stack[3] = 2 /\ stack[2] = 3 /\ stack[1] = 4
  /\ forwarded = Invocation(1, <<2, 3, 4>>, Py_True)

\* the slot a store-class instruction takes its value from
StoreClass == StoreNameOps \cup {"STORE_FAST", "STORE_SUBSCR"}
ValueSlot(code) ==
  IF code = "STORE_ATTR" THEN 2 ELSE IF code = "STORE_SUBSCR" THEN 3 ELSE 1

\* C18: the value of a forwarded Assignment is the top slot for a plain
\* name/global/local store, the second slot from the top for an attribute
\* store and the third for a subscript store; a local store to x with 5 on
\* top is forwarded as name x, value 5.
C18_StoreValueSlot ==
  LET code == prev_instr.code
      value == stack[ValueSlot(code)]
  IN  /\ (forwarded.method = "handle_opcode" /\ code \in StoreClass) =>
           forwarded.args[4] = value
      /\ (Decoded /\ code \in StoreClass \ {"STORE_SUBSCR"} /\ value # NULL) =>
           forwarded.method = "handle_opcode"
      /\ (Decoded /\ code = "STORE_FAST" /\ value # NULL) =>
           forwarded.args = <<SynthFrame, code, co_localsplusnames(prev_instr.arg), stack[1]>>

\* a subscript store with three different objects in the top three slots has
\* been forwarded with the third one as its value
C18_Witness ==
  /\ prev_instr.code = "STORE_SUBSCR"
  /\ stack[1] = 1 /\ stack[2] = 2 /\ stack[3] = 3
  /\ forwarded.method = "handle_opcode" /\ forwarded.args[4] = 3

\* C19: after stop() has returned the hook is uninstalled whether or not the
\* Sink's stop() failed, the Sink's stop() has been called once by it, and no
\* event is dispatched or forwarded until start() is called again.
C19_StopEndsDispatch ==
  [][/\ \A t \in Threads :
          /\ (pc[t] = "sink_stop" /\ pc'[t] # pc[t]) =>
               pc'[t] = "idle" /\ sinkcall[t].method = "stop" /\ t \notin hooked'
          /\ (pc'[t] = "sink_stop" /\ pc[t] # pc'[t]) => pc[t] = "idle"
     /\ stopped' = "yes" =>
          /\ hooked' = {}
          /\ \A t \in Threads :
               pc'[t] \notin {"dispatch", "is_excluded", "lock_cache",
                              "match_filename", "lock_store", "lock_event"}
                              \cup EventSinkPcs]_vars

\* thread t handles an event of a frame other than the guard occupant while
\* the guard slot is occupied
OtherFrameWhileMarked(t) ==
  /\ bad_frame # nullptr
  /\ cur[t].frame # bad_frame
  /\ pc'[t] # pc[t]

\* C20: while the guard is Marked(f), an event of another frame g is handled
\* as with the guard Idle: a Call goes to the policy and, with a function
\* that is not excluded and an included path, registers g and forwards
\* handle_call; Line, Return and Exception events are forwarded iff g is
\* registered; Instruction events are decoded.
C20_OtherFramesUnaffected ==
  [][\A t \in Threads :
       OtherFrameWhileMarked(t) =>
         /\ pc[t] = "dispatch" =>
              /\ cur[t].kind = "call" => pc'[t] = "is_excluded"
              /\ cur[t].kind \in LREKinds => pc'[t] = "lock_event"
              /\ cur[t].kind = "opcode" =>
                   pc'[t] \in {"sink_opcode", "returned"}
              /\ bad_frame' = bad_frame
         /\ (pc[t] \in {"lock_cache", "lock_store"} /\ pc'[t] # "match_filename") =>
              LET m == path_cache'[cur[t].file]
              IN  IF m THEN /\ pc'[t] = "sink_call"
                            /\ cur[t].frame \in active_frames'
                            /\ sinkcall'[t].method = "handle_call"
                  ELSE pc'[t] = "returned" /\ active_frames' = active_frames
         /\ pc[t] = "lock_event" =>
              IF cur[t].frame \in active_frames
              THEN \/ pc'[t] = "sink_" \o cur[t].kind
                   \/ /\ cur[t].kind = "exception" /\ ~UnpackOk(cur[t].arg)
                      /\ pc'[t] = "returned"
              ELSE pc'[t] = "returned"]_vars

\* while another frame is the guard occupant, a Call of a frame has been
\* accepted: the frame is registered and handle_call is being called
C20_Witness ==
  \E t \in Threads :
    /\ pc[t] = "sink_call" /\ sinkcall[t].method = "handle_call"
    /\ bad_frame # nullptr /\ bad_frame # cur[t].frame
    /\ cur[t].frame \in active_frames

\* C21: a Return or Exception event of the guard occupant makes the guard
\* Idle, makes no Sink call, returns success and leaves the registry and the
\* cache unchanged.
C21_OccupantExitClearsGuard ==
  [][\A t \in Threads :
       (/\ pc[t] = "dispatch" /\ pc'[t] # pc[t]
        /\ IsBadFrame(cur[t].frame)
        /\ cur[t].kind \in {"return", "exception"}) =>
         /\ bad_frame' = nullptr
         /\ pc'[t] = "returned" /\ ret'[t] = RetOk
         /\ sinkcall'[t] = NoCall
         /\ UNCHANGED <<active_frames, path_cache>>]_vars

\* the Exception event of a frame whose Call was found excluded has been
\* dropped and the guard is Idle
C21_Witness ==
  \E t \in Threads :
    /\ pc[t] = "returned" /\ cur[t].kind = "exception" /\ ret[t] = RetOk
    /\ cur[t].frame \in suppressed /\ cur[t].frame \notin active_frames
    /\ bad_frame = nullptr

\* C22: a Call whose function is_excluded_function reports excluded is
\* dropped: the guard becomes Marked(frame), match_filename is not invoked,
\* the cache and the registry are unchanged and no Sink call is made.
C22_ExcludedCallDropped ==
  [][\A t \in Threads :
       (pc[t] = "is_excluded" /\ pc'[t] # pc[t]) =>
         \/ /\ pc'[t] = "returned" /\ ret'[t] = RetOk
            /\ bad_frame' = cur[t].frame
            /\ sinkcall'[t] = NoCall
            /\ UNCHANGED <<path_cache, active_frames, mcalls>>
         \/ /\ pc'[t] = "lock_cache"
            /\ cur[t].frame \notin suppressed' \ suppressed
            /\ UNCHANGED bad_frame]_vars

\* a Call has been dropped for its excluded function: its frame is the guard
\* occupant and is not registered
C22_Witness ==
  \E t \in Threads :
    /\ pc[t] = "returned" /\ cur[t].kind = "call" /\ ret[t] = RetOk
    /\ bad_frame = cur[t].frame /\ cur[t].frame \in suppressed
    /\ cur[t].frame \notin active_frames

\* frame f occupies the guard slot
IsOccupant(f) == bad_frame # nullptr /\ bad_frame = f

\* C23: an Instruction event of the guard occupant makes no Sink call; an
\* Instruction event of any other frame goes to the decoder, registered or
\* not, and what is forwarded is what the decoder produces.
C23_InstructionBypassesRegistry ==
  [][\A t \in Threads :
       (pc[t] = "dispatch" /\ cur[t].kind = "opcode" /\ pc'[t] # pc[t]) =>
         IF IsOccupant(cur[t].frame)
         THEN pc'[t] = "returned" /\ ret'[t] = RetOk /\ sinkcall'[t] = NoCall
         ELSE \/ pc'[t] = "returned" /\ ret'[t] = RetOk /\ sinkcall'[t] = NoCall
              \/ /\ pc'[t] = "sink_opcode"
                 /\ \E instr \in Instrs, sp \in Stacks :
                      sinkcall'[t] = Decode(cur[t].frame, instr, sp)]_vars

\* handle_opcode is being called for a frame whose Call was rejected by the
\* path decision: it is not registered and its per-line flag is off
C23_Witness ==
  \E t \in Threads :
    /\ pc[t] = "sink_opcode" /\ sinkcall[t].method = "handle_opcode"
    /\ cur[t].frame \notin active_frames /\ cur[t].frame \in live
    /\ f_trace_lines[cur[t].frame] = 0

\* the entries of the name tables an operand can select
TableName(instr) ==
  IF instr.code = "STORE_FAST" THEN co_localsplusnames(instr.arg)
  ELSE co_names(instr.arg)

\* C24 as stated: the name of every forwarded Assignment, subscript stores
\* included, is the name-table entry the operand selects (co_names for
\* global, name and attribute stores, the locals table for local stores),
\* never a value from the operand stack.
C24_NameFromTable ==
  (forwarded.method = "handle_opcode" /\ prev_instr.code \in StoreClass) =>
    /\ prev_instr.code # "STORE_SUBSCR" => forwarded.args[3] = TableName(prev_instr)
    /\ forwarded.args[3] \in {co_names(prev_instr.arg),
                               co_localsplusnames(prev_instr.arg)}

\* C24 amended: as C24 for global, name, attribute and local stores; for a
\* subscript store the name is the top slot of the operand stack (the
\* subscript key).
C24_NameFromTableOrKey ==
  (forwarded.method = "handle_opcode" /\ prev_instr.code \in StoreClass) =>
    IF prev_instr.code = "STORE_SUBSCR"
    THEN forwarded.args[3] = stack[1]
    ELSE forwarded.args[3] = TableName(prev_instr)

\* a local store has been forwarded under the name its operand selects in
\* the locals table, and a table of another kind would give another name
C24_Witness ==
  /\ prev_instr = [code |-> "STORE_FAST", arg |-> 1]
  /\ forwarded.method = "handle_opcode"
  /\ forwarded.args[3] = co_localsplusnames(1)
  /\ forwarded.args[4] = stack[1]

\* the name a store resolves to: NULL only for a subscript store whose key
\* slot is empty
ResolvedName == IF prev_instr.code = "STORE_SUBSCR" THEN stack[1]
                ELSE TableName(prev_instr)
ResolvedValue == stack[ValueSlot(prev_instr.code)]

\* C25: a store whose resolved name or value slot is null makes no Sink call
\* and returns success; an Assignment is forwarded only with both non-null.
C25_NullStoreDropped ==
  (Decoded /\ prev_instr.code \in StoreClass) =>
    /\ ~crashed
    /\ (ResolvedName = NULL \/ ResolvedValue = NULL) => forwarded = NoCall
    /\ forwarded.method = "handle_opcode" =>
         /\ forwarded.args[3] # NULL /\ forwarded.args[4] # NULL
         /\ forwarded.args[3] = ResolvedName /\ forwarded.args[4] = ResolvedValue

\* an attribute store whose value slot is empty, under a non-empty top slot,
\* has been dropped
C25_Witness ==
  /\ prev_instr.code = "STORE_ATTR"
  /\ stack[1] # NULL /\ stack[2] = NULL
  /\ forwarded = NoCall /\ ~crashed

\* C26: a CALL whose callable slot (no receiver present) or one of whose n
\* argument slots is null is dropped without a Sink call and without a
\* crash, and no forwarded Invocation holds a null callable or argument.
C26_NullCallSlotsDropped ==
  LET n == prev_instr.arg
  IN  (Decoded /\ prev_instr.code = "CALL") =>
        /\ ((stack[n + 2] = NULL /\ stack[n + 1] = NULL) \/ ~ArgsPresent(n)) =>
             ~crashed /\ forwarded = NoCall
        /\ forwarded.method = "handle_opcode" =>
             /\ forwarded.args[3] # NULL
             /\ \A i \in DOMAIN forwarded.args[4] : forwarded.args[4][i] # NULL

\* C27: handling an Instruction event leaves the operand stack, the
\* instruction, the registry, the cache and the guard as they were.
C27_DecoderReadOnly ==
  [][/\ stack' = stack /\ prev_instr' = prev_instr
     /\ UNCHANGED <<active_frames, path_cache, bad_frame>>]_vars

\* a CALL with arguments has been decoded and forwarded and its argument
\* slots still hold the arguments
C27_Witness ==
  /\ prev_instr = [code |-> "CALL", arg |-> 2]
  /\ forwarded.method = "handle_opcode"
  /\ stack[1] # NULL /\ stack[2] # NULL
  /\ forwarded.args[4][Len(forwarded.args[4]) - 1] = stack[1]

\* thread t's step is the path decision of a Call: a cache hit, or the store
\* of a fresh matcher result
PathDecisionStep(t) ==
  /\ pc[t] \in {"lock_cache", "lock_store"}
  /\ pc'[t] \in {"returned", "sink_call"}

\* C28: a negative path decision for a Call of frame f, from a cache hit or
\* from a fresh matcher result that is cached, switches f's per-line flag
\* off; a positive decision leaves the flag as it is.
C28_NegativeDecisionStopsLines ==
  [][\A t \in Threads :
       PathDecisionStep(t) =>
         LET f == cur[t].frame
             p == cur[t].file
         IN  /\ p \in DOMAIN path_cache'
             /\ IF path_cache'[p]
                THEN pc'[t] = "sink_call" /\ f_trace_lines'[f] = f_trace_lines[f]
                ELSE pc'[t] = "returned" /\ f_trace_lines'[f] = 0]_vars

\* a Call has been rejected by a cache hit: the matcher ran once for the
\* path, two frames have been decided, and the frame's flag is off
C28_Witness ==
  \E t \in Threads :
    /\ pc[t] = "returned" /\ cur[t].kind = "call"
    /\ cur[t].file \in DOMAIN path_cache /\ ~path_cache[cur[t].file]
    /\ mcalls[cur[t].file] = 1 /\ ~mfailed[cur[t].file]
    /\ f_trace_lines[cur[t].frame] = 0
    /\ \E g \in live \ {cur[t].frame} : f_trace_lines[g] = 0

\* the threads between the membership check and the end of the Sink call of
\* a Return, Line or Exception event
InCheckAndForward == {t \in Threads : pc[t] \in LRESinkPcs}

\* C29: the membership check and the Sink call of a Return, Line or
\* Exception event (with the removal, for Return) are one critical section:
\* at most one thread is inside it, it owns the mutex, and while it stays
\* inside the registry does not change.
C29_CheckAndForwardAtomic ==
  [][/\ Cardinality(InCheckAndForward') <= 1
     /\ \A t \in InCheckAndForward' : cache_mutex' = t
     /\ (\E t \in InCheckAndForward : pc'[t] = pc[t]) =>
          active_frames' = active_frames]_vars

\* a thread is inside its check-and-forward section while another thread
\* waits for the mutex with an event of its own
C29_Witness ==
  \E t, u \in Threads :
    /\ t # u /\ pc[t] \in LRESinkPcs /\ cache_mutex = t
    /\ pc[u] = "lock_event" /\ gil = u

\* thread t's step reads or writes path_cache or active_frames
AccessStep(t) ==
  \/ pc[t] \in {"lock_cache", "lock_store", "lock_event", "sink_return"} /\ pc'[t] # pc[t]
  \/ inj[t] # nullptr /\ inj'[t] = nullptr

\* C30: every read and write of the cache and of the registry is made by a
\* thread that has taken the mutex for it: the mutex is free when the access
\* begins or is owned by the accessing thread, never by another thread; and
\* the two structures change in no other step.
C30_AccessUnderLock ==
  [][/\ \A t \in Threads : AccessStep(t) => cache_mutex \in {NoThread, t}
     /\ (path_cache' # path_cache \/ active_frames' # active_frames) =>
          \E t \in Threads : AccessStep(t)]_vars

\* a handler owns the mutex for the removal of its Return while another
\* thread's add_target_frame waits for it
C30_Witness ==
  \E t, u \in Threads :
    /\ t # u /\ pc[t] = "sink_return" /\ cache_mutex = t
    /\ inj[u] # nullptr

\* C31: when Sink.handle_return raises for a registered frame, the failure is
\* printed and cleared, the frame is removed from the registry all the same
\* and the handler returns success.
C31_FailedReturnStillUnregisters ==
  [][\A t \in Threads :
       (pc[t] = "sink_return" /\ SinkReturn(t, FALSE)) =>
         /\ cur[t].frame \in active_frames
         /\ cur[t].frame \notin active_frames'
         /\ printed'[t] /\ ~pyerr'[t]
         /\ pc'[t] = "returned" /\ ret'[t] = RetOk]_vars

\* a handler returns from a Return event whose Sink call raised
C31_Witness ==
  \E t \in Threads :
    /\ pc[t] = "returned" /\ cur[t].kind = "return" /\ printed[t]
    /\ cur[t].frame \in retired /\ cur[t].frame \notin active_frames

\* thread t's handler calls config.is_excluded_function in this step
PolicyConsulted(t) == pc[t] # "is_excluded" /\ pc'[t] = "is_excluded"

\* C32: is_excluded_function is called only while a Call event is handled and
\* at most once per Call event (the handler goes on from the call to the path
\* decision or returns, and comes back to the dispatch only with the next
\* event), never for a Line, Return, Exception or Instruction event, and never
\* for an event of the frame the guard holds: an excluded invocation that
\* stays the occupant has the policy consulted by its Call only.
C32_PolicyOnlyOnCall ==
  [][\A t \in Threads :
       /\ pc'[t] = "is_excluded" => cur'[t].kind = "call"
       /\ PolicyConsulted(t) =>
            /\ pc[t] = "dispatch" /\ cur[t].kind = "call" /\ cur'[t] = cur[t]
            /\ ~IsOccupant(cur[t].frame)
       /\ (pc[t] = "is_excluded" /\ pc'[t] # pc[t]) =>
            pc'[t] \in {"returned", "lock_cache"}
       /\ (pc[t] # "dispatch" /\ pc'[t] = "dispatch") =>
            pc[t] \in {"idle", "sink_start"}]_vars

\* a Line event of an excluded invocation that is still the guard occupant
\* has been handled
C32_Witness ==
  \E t \in Threads :
    /\ pc[t] = "returned" /\ cur[t].kind = "line"
    /\ IsOccupant(cur[t].frame) /\ cur[t].frame \in suppressed

\* C33: when is_excluded_function raises during a Call event the guard is left
\* as it is and the handler goes on to the cache decision in exactly the state
\* it is in after is_excluded_function has returned false.
C33_PolicyFailureAsNotExcluded ==
  [][\A t \in Threads :
       IsExcludedReturn(t, "fail") =>
         /\ bad_frame' = bad_frame
         /\ pc'[t] = "lock_cache"
         /\ IsExcludedReturn(t, "false")]_vars

\* C34: add_target_frame called by the Sink from inside any of its event
\* callbacks can complete: the calling thread does not own cache_mutex at that
\* point, so it never waits for a lock it holds itself.
C34_InjectionFromCallback ==
  \A t \in Threads :
    (pc[t] \in EventSinkPcs /\ inj[t] # nullptr) => cache_mutex # t

\* a Sink call that does not return by the Sink's own doing: it has called
\* add_target_frame on a thread that owns cache_mutex
SinkStuck == \E u \in Threads : inj[u] # nullptr /\ cache_mutex = u

\* C35: with several threads delivering events and Sink and policy calls that
\* always return, every event handler that has been entered returns (unless
\* the process dies), also when a thread keeps the gil while it waits for
\* cache_mutex and a Sink call made with cache_mutex held yields the gil.
C35_HandlersReturn ==
  \A t \in Threads :
    (pc[t] = "dispatch") ~> (pc[t] = "returned" \/ crashed \/ SinkStuck)

\* C36: no event callback of the Sink runs before the Sink's start() has
\* returned or after its stop() has been called: while a thread is inside
\* handle_call, handle_line, handle_return, handle_exception or handle_opcode
\* no start() is still in progress and no stop() has begun.
C36_EventsBetweenStartAndStop ==
  \A t \in Threads :
    pc[t] \in EventSinkPcs => starting = {} /\ stopped = "no"

\* thread t's handler returns from a Call event it has rejected: the function
\* is excluded, the path is decided negatively (from the cache or afresh), or
\* the matcher call failed
RejectedCallStep(t) ==
  /\ cur[t].kind = "call"
  /\ pc[t] \in {"is_excluded", "lock_cache", "match_filename", "lock_store"}
  /\ pc'[t] = "returned"

C38_FailedCallStaysRegistered ==
  [][/\ callFailed' \subseteq active_frames' \cup retired'
     /\ \A t \in Threads :
          /\ (pc[t] = "sink_call" /\ SinkReturn(t, FALSE)) =>
               /\ cur[t].frame \in active_frames
               /\ cur[t].frame \in active_frames'
               /\ printed'[t] /\ ~pyerr'[t]
               /\ pc'[t] = "returned" /\ ret'[t] = RetOk
          /\ (/\ pc[t] = "lock_event" /\ pc'[t] # pc[t]
              /\ cur[t].frame \in callFailed \ retired
              /\ cur[t].kind = "exception" => UnpackOk(cur[t].arg)) =>
               /\ pc'[t] = "sink_" \o cur[t].kind
               /\ sinkcall'[t] = SinkCallOf(cur[t])
          /\ (/\ pc[t] = "sink_return" /\ pc'[t] # pc[t]
              /\ cur[t].frame \in callFailed) =>
               cur[t].frame \notin active_frames']_vars

\* a Line event of a frame whose handle_call raised is being forwarded
C38_Witness ==
  \E t \in Threads :
    /\ pc[t] = "sink_line" /\ cur[t].frame \in callFailed
    /\ cur[t].frame \in active_frames /\ cur[t].frame \in live

\* the indices of ops that parse_operands stored to
StoredIndices == {parsed.ops[i].index : i \in DOMAIN parsed.ops}

\* C39: parse_operands returns a count from 0 to max_ops and stores to
\* ops[0] .. ops[count - 1] only, so never at an index >= max_ops, whatever
\* the string is, a string that ends inside a memory reference included.
C39_OperandsWithinCapacity ==
  parsed # NotParsed =>
    /\ parsed.count \in 0..max_ops
    /\ StoredIndices = 0..(parsed.count - 1)
    /\ Len(parsed.ops) = parsed.count
    /\ \A i \in StoredIndices : i < max_ops

\* a string without ']' whose last operand is a memory reference has filled
\* ops to its capacity
C39_Witness ==
  /\ parsed # NotParsed /\ max_ops >= 1 /\ parsed.count = max_ops
  /\ parsed.ops[parsed.count].type = "OPERAND_MEMREF"
  /\ \A i \in DOMAIN str : str[i] # "]"
====
